---- MODULE Spec2Model ----
(***************************************************************************)
(* Model of blockhash-python (src/blockhash/blockhash.py): the block mean   *)
(* value perceptual hash (median, total_value_*, translate_blocks_to_bits,  *)
(* bits_to_hexhash, blockhash_even, blockhash) and the lazy generator       *)
(* ImageBlockhashCalculator.compute_blockhash.                              *)
(*                                                                         *)
(* Numbers.  A Python number is a record [t, n]: t = "int" with value n, or *)
(* t = "float" with value n / unit, where unit = bits * bits in the weighted*)
(* path (every weight is a multiple of 1 / bits) and 1 in the exact path.    *)
(* For bits a power of two every float the code computes is exactly such a  *)
(* fraction, so the arithmetic below is the code's arithmetic.              *)
(* For bits = 3 the code's floats are rounded; the rounding can flip the   *)
(* bit of a block that exact arithmetic puts on its band's median, but      *)
(* not whether a hash is returned or an error raised.                       *)
(* Strings are sequences of one-character strings.                         *)
(***************************************************************************)
EXTENDS Integers, Sequences, FiniteSets, TLC

VARIABLES im, bits, pc, result, blocks, before, ppb,
          quick, gbits, images, pulled, cur, out, gen, requests, errors

vars == <<im, bits, pc, result, blocks, before, ppb,
          quick, gbits, images, pulled, cur, out, gen, requests, errors>>

hashVars == <<im, bits, pc, result>>
bandVars == <<blocks, before, ppb>>
genVars == <<quick, gbits, images, pulled, cur, out, gen, requests, errors>>

\* ---------------------------------------------------------------- bounds
MaxDim == 5
MaxImages == 2
MaxBand == 3
MaxPpb == 2

\* ------------------------------------------------------- Python numbers
PyInt(n) == [t |-> "int", n |-> n]
PyFloat(n) == [t |-> "float", n |-> n]

Abs(n) == IF n < 0 THEN -n ELSE n

RECURSIVE Insert(_, _)
Insert(s, v) ==
    IF s = <<>> THEN <<v>>
    ELSE IF v <= Head(s) THEN <<v>> \o s
    ELSE <<Head(s)>> \o Insert(Tail(s), v)

RECURSIVE sorted(_)
sorted(data) ==
    IF data = <<>> THEN <<>> ELSE Insert(sorted(Tail(data)), Head(data))

\* median(data), returned DOUBLED so that the even-length average
\* (a + b) / 2.0 stays an integer: median2(data) = 2 * median(data).
median2(data) ==
    LET s == sorted(data)
        length == Len(s)
    IN IF length % 2 = 0
       THEN s[length \div 2] + s[length \div 2 + 1]
       ELSE 2 * s[length \div 2 + 1]

\* ------------------------------------------------------------- sampling
\* data[y * im.size[0] + x], 0-based in the code, 1-based here.
PixelAt(image, x, y) == image.data[y * image.size[1] + x + 1]

\* Faulty variant: the alpha channel is ignored.
total_value_rgba_opaque(image, x, y) ==
    LET p == PixelAt(image, x, y)
    IN p[1] + p[2] + p[3]

total_value_rgba(image, x, y) ==
    LET p == PixelAt(image, x, y)
    IN IF p[4] = 0 THEN 765 ELSE p[1] + p[2] + p[3]

total_value_rgb(image, x, y) ==
    LET p == PixelAt(image, x, y)
    IN p[1] + p[2] + p[3]

total_value(image, x, y) ==
    IF image.mode = "RGBA" THEN total_value_rgba(image, x, y)
    ELSE total_value_rgb(image, x, y)

\* --------------------------------------------------- median thresholding
\* Faulty variant: no tie-break, a block is 1 only above the median.
ThresholdBitStrict(v, m2, half2, unit) ==
    IF 2 * v > m2 THEN 1 ELSE 0

\* Faulty variant: the tie-break also fires for a median equal to half_block_value.
ThresholdBitInclusive(v, m2, half2, unit) ==
    IF 2 * v > m2 \/ (Abs(2 * v - m2) < 2 * unit /\ m2 >= half2) THEN 1 ELSE 0

\* One output bit: int(v > m or (abs(v - m) < 1 and m > half_block_value)),
\* with v, m and half_block_value in units of 1 / unit and m doubled (m2).
ThresholdBit(v, m2, half2, unit) ==
    IF 2 * v > m2 \/ (Abs(2 * v - m2) < 2 * unit /\ m2 > half2) THEN 1 ELSE 0

\* translate_blocks_to_bits(blocks, pixels_per_block): the list after the
\* in-place update.  bs is a sequence of Python numbers whose n fields and
\* pixels_per_block are in units of 1 / unit.  Only the 4 * bandsize first
\* entries are overwritten; any entry after them keeps its block value.
translate_blocks_to_bits(bs, pixels_per_block, unit) ==
    LET half2 == pixels_per_block * 256 * 3
        bandsize == Len(bs) \div 4
        band(i) == [k \in 1..bandsize |-> bs[i * bandsize + k].n]
        m2(i) == median2(band(i))
    IN [j \in 1..Len(bs) |->
          IF j <= 4 * bandsize
          THEN PyInt(ThresholdBit(bs[j].n, m2((j - 1) \div bandsize), half2, unit))
          ELSE bs[j]]

\* ----------------------------------------------------------- hex encoding
Digit(d) == <<"0", "1", "2", "3", "4", "5", "6", "7", "8", "9",
              "a", "b", "c", "d", "e", "f">>[d + 1]

RECURSIVE ToBase(_, _)
ToBase(n, base) ==
    IF n < base THEN <<Digit(n)>>
    ELSE ToBase(n \div base, base) \o <<Digit(n % base)>>

\* str(x): an int prints its decimal digits; a float always prints a "."
\* (digits after the point are not modelled).
Str(x) ==
    IF x.t = "int" THEN ToBase(x.n, 10) ELSE <<"0", ".", "0">>

RECURSIVE Join(_)
Join(xs) == IF xs = <<>> THEN <<>> ELSE Str(Head(xs)) \o Join(Tail(xs))

RECURSIVE Base2Value(_, _)
Base2Value(s, acc) ==
    IF s = <<>> THEN acc
    ELSE Base2Value(Tail(s), 2 * acc + (IF Head(s) = "1" THEN 1 ELSE 0))

\* Faulty variant: the width of the format is dropped.
ZeroPadNone(s, width) == s

RECURSIVE ZeroPad(_, _)
ZeroPad(s, width) == IF Len(s) >= width THEN s ELSE ZeroPad(<<"0">> \o s, width)

Ok(h) == [kind |-> "ok", hash |-> h]
Raise(e) == [kind |-> e, hash |-> <<>>]

\* bits_to_hexhash: int(''.join(str(x)), 2) raises ValueError on an empty
\* string or on any character other than 0 and 1; '{0:0={width}x}' pads
\* with zeros to at least len(bits) // 4 characters.
bits_to_hexhash(bs) ==
    LET s == Join(bs)
    IN IF s = <<>> \/ \E k \in 1..Len(s) : s[k] \notin {"0", "1"}
       THEN Raise("ValueError")
       ELSE Ok(ZeroPad(ToBase(Base2Value(s, 0), 16), Len(bs) \div 4))

\* ------------------------------------------------------- block aggregation
Supported(image) == image.mode \in {"RGBA", "RGB"}

\* Sum of total_value over the blocksize_x * blocksize_y pixels of block
\* (x, y), visited in the order of the two inner loops (k = iy * bx + ix).
RECURSIVE BlockValue(_, _, _, _, _, _)
BlockValue(image, x, y, bx, by, k) ==
    IF k = bx * by THEN 0
    ELSE total_value(image, x * bx + (k % bx), y * by + (k \div bx))
         + BlockValue(image, x, y, bx, by, k + 1)

\* The list `result` of blockhash_even before thresholding (row-major).
EvenBlocks(image, b) ==
    LET blocksize_x == image.size[1] \div b
        blocksize_y == image.size[2] \div b
    IN [j \in 1..(b * b) |->
          PyInt(BlockValue(image, (j - 1) % b, (j - 1) \div b,
                           blocksize_x, blocksize_y, 0))]

blockhash_even(image, b) ==
    IF ~Supported(image) THEN Raise("RuntimeError")
    ELSE LET blocksize_x == image.size[1] \div b
             blocksize_y == image.size[2] \div b
         IN bits_to_hexhash(
              translate_blocks_to_bits(EvenBlocks(image, b),
                                       blocksize_x * blocksize_y, 1))

\* Faulty variant: the block index of a pixel is rounded up instead of down.
StraddleCeil(p, extent, b, even) ==
    LET r == ((p + 1) * b) % extent
        frac == r % b
        hi == (p * b + extent - 1) \div extent
        top == IF hi > b - 1 THEN b - 1 ELSE hi
    IN [first |-> top, second |-> top, w1 |-> b - frac, w2 |-> frac]

\* Lines 109-124 (rows) and 129-144 (columns) share one shape.  For pixel
\* coordinate p in a dimension of `extent` pixels cut into b blocks of
\* extent / b: the two block indices and the two weights, the weights in
\* units of 1 / b.  (p + 1) % (extent / b) is r / b with
\* r = ((p + 1) * b) % extent, so modf gives frac = (r % b) / b and
\* int = r \div b; p // (extent / b) is floor(p * b / extent) and
\* -(-p // (extent / b)) is the ceiling.
Straddle(p, extent, b, even) ==
    LET r == ((p + 1) * b) % extent
        frac == r % b
        int == r \div b
        lo == (p * b) \div extent
        hi == (p * b + extent - 1) \div extent
    IN IF even
       THEN [first |-> lo, second |-> lo, w1 |-> b, w2 |-> 0]
       ELSE IF int > 0 \/ p + 1 = extent
            THEN [first |-> lo, second |-> lo, w1 |-> b - frac, w2 |-> frac]
            ELSE [first |-> lo, second |-> hi, w1 |-> b - frac, w2 |-> frac]

\* blocks[row][col] += v, on the matrix kept as a function of <<row, col>>.
\* v is a product with a float weight, so the entry becomes a float; an
\* entry no pixel reaches stays the int 0 it was created as.
AddTo(bl, row, col, v) == [bl EXCEPT ![<<row, col>>] = PyFloat(@.n + v)]

\* The four += of lines 147-150 for pixel (x, y).
AddPixel(bl, image, b, x, y) ==
    LET width == image.size[1]
        height == image.size[2]
        rw == Straddle(y, height, b, height % b = 0)
        cl == Straddle(x, width, b, width % b = 0)
        value == total_value(image, x, y)
        b1 == AddTo(bl, rw.first, cl.first, value * rw.w1 * cl.w1)
        b2 == AddTo(b1, rw.first, cl.second, value * rw.w1 * cl.w2)
        b3 == AddTo(b2, rw.second, cl.first, value * rw.w2 * cl.w1)
    IN AddTo(b3, rw.second, cl.second, value * rw.w2 * cl.w2)

\* The loops of lines 108-150 from pixel number k on (k = y * width + x).
RECURSIVE Accumulate(_, _, _, _)
Accumulate(bl, image, b, k) ==
    IF k = image.size[1] * image.size[2] THEN bl
    ELSE Accumulate(AddPixel(bl, image, b, k % image.size[1], k \div image.size[1]),
                    image, b, k + 1)

\* blocks after the loops, in units of 1 / (b * b).
WeightedMatrix(image, b) ==
    Accumulate([rc \in (0..(b - 1)) \X (0..(b - 1)) |-> PyInt(0)], image, b, 0)

\* The list `result` of line 152, row-major.
WeightedBlocks(image, b) ==
    LET m == WeightedMatrix(image, b)
    IN [j \in 1..(b * b) |-> m[<<(j - 1) \div b, (j - 1) % b>>]]

\* Lines 103-155: the weighted-distribution path; block_width * block_height
\* is width * height in units of 1 / (b * b).
weighted_path(image, b) ==
    bits_to_hexhash(
      translate_blocks_to_bits(WeightedBlocks(image, b),
                               image.size[1] * image.size[2], b * b))

blockhash(image, b) ==
    IF ~Supported(image) THEN Raise("RuntimeError")
    ELSE IF image.size[1] % b = 0 /\ image.size[2] % b = 0
         THEN blockhash_even(image, b)
         ELSE weighted_path(image, b)

\* ------------------------------------------------------------ orchestration
\* set_blockhash_method: blockhash_even if quick else blockhash.
blockhash_method(q, image, b) ==
    IF q THEN blockhash_even(image, b) ELSE blockhash(image, b)

\* im.convert('RGB') for modes 1, L, P and im.convert('RGBA') for LA (the
\* image library's conversion, given here for grey levels: the level fills
\* r, g and b); any other mode is handed on unchanged.  self.size is None:
\* no resize.
Normalize(image) ==
    IF image.mode \in {"1", "L", "P"}
    THEN [image EXCEPT !.mode = "RGB",
                       !.data = [k \in DOMAIN image.data |->
                                   <<image.data[k][1], image.data[k][1], image.data[k][1]>>]]
    ELSE IF image.mode = "LA"
    THEN [image EXCEPT !.mode = "RGBA",
                       !.data = [k \in DOMAIN image.data |->
                                   <<image.data[k][1], image.data[k][1],
                                     image.data[k][1], image.data[k][2]>>]]
    ELSE image

\* ------------------------------------------------------------------ inputs
BitsSet == {2, 3, 4}

RGBColours == {<<0, 0, 0>>, <<100, 0, 0>>, <<0, 200, 200>>, <<255, 255, 255>>}
UniformColours == RGBColours \cup {<<50, 0, 0>>, <<0, 100, 0>>, <<128, 128, 128>>,
                                   <<129, 128, 128>>}
Opaque(c) == <<c[1], c[2], c[3], 255>>
RGBAUniformColours == {Opaque(c) : c \in UniformColours} \cup {<<100, 0, 0, 0>>}

\* <<background, foreground>> of the two-colour pictures.
RGBPairs == {<<<<0, 0, 0>>, <<255, 255, 255>>>>, <<<<255, 255, 255>>, <<0, 0, 0>>>>,
             <<<<0, 200, 200>>, <<100, 0, 0>>>>}
RGBAPairs == {<<<<0, 0, 0, 255>>, <<100, 0, 0, 0>>>>,
              <<<<255, 255, 255, 255>>, <<0, 200, 200, 7>>>>,
              <<<<0, 200, 200, 7>>, <<0, 0, 0, 0>>>>}

\* Pixel k (1-based, row-major) is foreground in pattern pat.
Foreground(pat, k, w) ==
    CASE pat.kind = "uniform" -> FALSE
      [] pat.kind = "spot" -> k = pat.pos
      [] pat.kind = "checker" -> (((k - 1) % w) + ((k - 1) \div w)) % 2 = 1
      [] pat.kind = "cols" -> ((k - 1) % w) % 2 = 1

Picture(mode, w, h, bg, fg, pat) ==
    [mode |-> mode, size |-> <<w, h>>,
     data |-> [k \in 1..(w * h) |-> IF Foreground(pat, k, w) THEN fg ELSE bg]]

Uniform(mode, w, h, c) == Picture(mode, w, h, c, c, [kind |-> "uniform", pos |-> 0])

\* Where the spot goes: anywhere in a small picture, on the diagonal of
\* the 8 x 8 one.
SpotPositions(w, h) ==
    IF w * h <= MaxDim * MaxDim THEN 1..(w * h)
    ELSE {q \in 1..(w * h) : (q - 1) % w = (q - 1) \div w}

Patterns(w, h) ==
    {[kind |-> "spot", pos |-> q] : q \in SpotPositions(w, h)}
      \cup {[kind |-> "checker", pos |-> 0], [kind |-> "cols", pos |-> 0]}

PicturesOfSize(w, h) ==
    {Uniform("RGB", w, h, c) : c \in UniformColours}
      \cup {Uniform("RGBA", w, h, c) : c \in RGBAUniformColours}
      \cup UNION {{Picture("RGB", w, h, c[1], c[2], pat) : pat \in Patterns(w, h)} :
                    c \in RGBPairs}
      \cup UNION {{Picture("RGBA", w, h, c[1], c[2], pat) : pat \in Patterns(w, h)} :
                    c \in RGBAPairs}

\* Every size up to MaxDim x MaxDim, and the 8 x 8 size.
Sizes == ((1..MaxDim) \X (1..MaxDim)) \cup {<<8, 8>>}

Pictures == UNION {PicturesOfSize(sz[1], sz[2]) : sz \in Sizes}

NoImage == [mode |-> "none", size |-> <<0, 0>>, data |-> <<>>]
NoResult == [kind |-> "none", hash |-> <<>>]

\* --------------------------------------------- direct calls of the hashers
HashIdle ==
    /\ blocks = <<>> /\ before = <<>> /\ ppb = 0
    /\ quick = FALSE /\ gbits = 0 /\ images = <<>> /\ pulled = 0
    /\ cur = NoImage /\ out = <<>> /\ gen = "none" /\ requests = 0 /\ errors = <<>>

InitHash ==
    /\ im \in Pictures
    /\ bits \in BitsSet
    /\ pc = "idle"
    /\ result = NoResult
    /\ HashIdle

CallBlockhash ==
    /\ pc = "idle"
    /\ result' = blockhash(im, bits)
    /\ pc' = "blockhash"
    /\ UNCHANGED <<im, bits, bandVars, genVars>>

CallBlockhashEven ==
    /\ pc = "idle"
    /\ result' = blockhash_even(im, bits)
    /\ pc' = "blockhash_even"
    /\ UNCHANGED <<im, bits, bandVars, genVars>>

NextHash == CallBlockhash \/ CallBlockhashEven

SpecHash == InitHash /\ [][NextHash]_vars

\* -------------------------------------- direct calls of the thresholder
BandValues == {0, 384, 385}

Fill(n, v) == [k \in 1..n |-> PyInt(v)]

\* A block list of 4 bands of n values: band `at` is `free`, the three
\* others are filled with one value each.
BandList(n, at, free, fills) ==
    LET bandOf(i) == IF i = at THEN [k \in 1..n |-> PyInt(free[k])]
                     ELSE Fill(n, fills[IF i < at THEN i + 1 ELSE i])
    IN bandOf(0) \o bandOf(1) \o bandOf(2) \o bandOf(3)

BandLists ==
    UNION {{BandList(n, at, free, fills) :
              at \in 0..3, free \in [1..n -> BandValues], fills \in [1..3 -> BandValues]} :
           n \in 1..MaxBand}

BandIdle ==
    /\ im = NoImage /\ bits = 0 /\ result = NoResult
    /\ quick = FALSE /\ gbits = 0 /\ images = <<>> /\ pulled = 0
    /\ cur = NoImage /\ out = <<>> /\ gen = "none" /\ requests = 0 /\ errors = <<>>

InitBand ==
    /\ blocks \in BandLists
    /\ before = <<>>
    /\ ppb \in 0..MaxPpb
    /\ pc = "idle"
    /\ BandIdle

\* The list is updated in place; `before` keeps the list as it was passed.
CallTranslate ==
    /\ pc = "idle"
    /\ before' = blocks
    /\ blocks' = translate_blocks_to_bits(blocks, ppb, 1)
    /\ pc' = "translated"
    /\ UNCHANGED <<im, bits, result, ppb, genVars>>

NextBand == CallTranslate

SpecBand == InitBand /\ [][NextBand]_vars

\* ------------------------------------------------ compute_blockhash, lazily
\* The generator object: gen is its position.  "created": not started;
\* "running": resumed by next(), about to advance `for im in images`;
\* "hashing": an image pulled and normalized, about to call the hash method;
\* "suspended": at the yield, a hash handed to the consumer; "raised": the
\* hash method raised, the exception left the generator (which closes it)
\* and the consumer caught it; "finished": the loop ended and the generator
\* returned (StopIteration); "closed": next() on the generator an exception
\* closed, answered with StopIteration.
GenPictures ==
    {Uniform("RGB", 2, 2, <<255, 255, 255>>),
     Picture("RGB", 2, 2, <<0, 0, 0>>, <<255, 255, 255>>, [kind |-> "spot", pos |-> 1]),
     Picture("RGB", 3, 2, <<0, 0, 0>>, <<255, 255, 255>>, [kind |-> "cols", pos |-> 0]),
     Picture("RGBA", 2, 2, <<0, 0, 0, 255>>, <<100, 0, 0, 0>>, [kind |-> "spot", pos |-> 4]),
     Picture("L", 2, 2, <<0>>, <<255>>, [kind |-> "spot", pos |-> 2]),
     Picture("LA", 2, 2, <<0, 255>>, <<9, 0>>, [kind |-> "spot", pos |-> 3]),
     Uniform("CMYK", 2, 2, <<0, 0, 0, 0>>)}

RECURSIVE SeqsUpTo(_, _)
SeqsUpTo(S, n) ==
    IF n = 0 THEN {<<>>}
    ELSE LET shorter == SeqsUpTo(S, n - 1)
         IN shorter \cup {Append(q, e) : q \in shorter, e \in S}

GenIdle ==
    /\ im = NoImage /\ bits = 0 /\ result = NoResult /\ pc = "none"
    /\ blocks = <<>> /\ before = <<>> /\ ppb = 0

InitGen ==
    /\ quick \in BOOLEAN
    /\ gbits \in {2, 4}
    /\ images \in SeqsUpTo(GenPictures, MaxImages)
    /\ pulled = 0
    /\ cur = NoImage
    /\ out = <<>>
    /\ gen = "created"
    /\ requests = 0
    /\ errors = <<>>
    /\ GenIdle

\* The consumer calls next() on a generator that can still run.
Request ==
    /\ gen \in {"created", "suspended"}
    /\ gen' = "running"
    /\ requests' = requests + 1
    /\ UNCHANGED <<hashVars, bandVars, quick, gbits, images, pulled, cur, out, errors>>

\* The consumer calls next() on a generator that returned or that an
\* exception closed: StopIteration at once, no code of the generator runs.
RequestClosed ==
    /\ gen \in {"raised", "finished", "closed"}
    /\ requests <= Len(images) + 1
    /\ gen' = IF gen = "finished" THEN "finished" ELSE "closed"
    /\ requests' = requests + 1
    /\ UNCHANGED <<hashVars, bandVars, quick, gbits, images, pulled, cur, out, errors>>

\* Faulty variant: the generator reads one image ahead of the one it hashes.
PullAhead ==
    /\ gen = "running"
    /\ pulled < Len(images)
    /\ pulled' = IF pulled + 2 <= Len(images) THEN pulled + 2 ELSE pulled + 1
    /\ cur' = Normalize(images[pulled + 1])
    /\ gen' = "hashing"
    /\ UNCHANGED <<hashVars, bandVars, quick, gbits, images, out, requests, errors>>

\* `for im in images` takes the next image and lines 199-205 normalize it.
Pull ==
    /\ gen = "running"
    /\ pulled < Len(images)
    /\ pulled' = pulled + 1
    /\ cur' = Normalize(images[pulled + 1])
    /\ gen' = "hashing"
    /\ UNCHANGED <<hashVars, bandVars, quick, gbits, images, out, requests, errors>>

\* `for im in images` finds the input exhausted: the generator returns.
Exhaust ==
    /\ gen = "running"
    /\ pulled = Len(images)
    /\ gen' = "finished"
    /\ UNCHANGED <<hashVars, bandVars, quick, gbits, images, pulled, cur, out,
                   requests, errors>>

\* Line 207 and the yield of line 216, or the exception of line 207.
HashAndYield ==
    /\ gen = "hashing"
    /\ LET r == blockhash_method(quick, cur, gbits)
       IN IF r.kind = "ok"
          THEN /\ out' = Append(out, r.hash)
               /\ gen' = "suspended"
               /\ UNCHANGED errors
          ELSE /\ errors' = Append(errors, r.kind)
               /\ gen' = "raised"
               /\ UNCHANGED out
    /\ UNCHANGED <<hashVars, bandVars, quick, gbits, images, pulled, cur, requests>>

NextGen == Request \/ RequestClosed \/ Pull \/ Exhaust \/ HashAndYield

SpecGen == InitGen /\ [][NextGen]_vars

\* ===================================================================== claims
HexChars == {"0", "1", "2", "3", "4", "5", "6", "7", "8", "9",
             "a", "b", "c", "d", "e", "f"}

ValidBits(b) == b >= 2 /\ (b * b) % 4 = 0
Divisible(image, b) == image.size[1] % b = 0 /\ image.size[2] % b = 0
Called == pc \in {"blockhash", "blockhash_even"}

\* The hasher the current state has called, applied to another image.
CalledOn(image) ==
    IF pc = "blockhash" THEN blockhash(image, bits) ELSE blockhash_even(image, bits)

IsUniform(image) == \A k \in DOMAIN image.data : image.data[k] = image.data[1]

\* C1: for every RGB/RGBA image and every valid bits, blockhash and
\* blockhash_even return a string of exactly bits*bits // 4 characters, each
\* a lowercase hexadecimal digit.
C1_HashLength ==
    (Called /\ ValidBits(bits)) =>
        /\ result.kind = "ok"
        /\ Len(result.hash) = (bits * bits) \div 4
        /\ \A k \in 1..Len(result.hash) : result.hash[k] \in HexChars

\* The weighted path returned a 4-character hash whose leading zero is padding.
C1_Witness ==
    /\ pc = "blockhash" /\ bits = 4 /\ ~Divisible(im, bits)
    /\ result.kind = "ok" /\ Len(result.hash) = 4
    /\ result.hash[1] = "0" /\ result.hash[4] # "0"

\* C2: when width and height are multiples of bits, the weighted
\* aggregation and the exact aggregation give the same block sums, the
\* weighted path and blockhash_even the same hash (bits valid), and the
\* default method returns what the quick method returns.
C2_Agreement ==
    (Called /\ Divisible(im, bits)) =>
        LET weighted == WeightedBlocks(im, bits)
            exact == EvenBlocks(im, bits)
        IN /\ \A j \in 1..(bits * bits) : weighted[j].n = bits * bits * exact[j].n
           /\ ValidBits(bits) => weighted_path(im, bits) = blockhash_even(im, bits)
           /\ result = blockhash_even(im, bits)
           /\ result = blockhash(im, bits)

\* A 4x4 picture cut into 2x2 blocks of 4 pixels, with a hash of mixed bits.
C2_Witness ==
    /\ pc = "blockhash" /\ bits = 2 /\ im.size = <<4, 4>>
    /\ result.kind = "ok" /\ result.hash \notin {<<"0">>, <<"f">>}

\* C3: blockhash on an 8x8 image with bits = 3 returns a hash and never
\* raises.
C3_NeverRaises ==
    (pc = "blockhash" /\ im.size = <<8, 8>> /\ bits = 3) => result.kind = "ok"

White4x4 == Uniform("RGB", 4, 4, <<255, 255, 255>>)

\* C4 as claimed: the 4x4 solid-white RGB image with bits = 2 hashes to "0".
C4_HashIsZero ==
    (Called /\ im = White4x4 /\ bits = 2) => result = Ok(<<"0">>)

\* C4 as amended: the 4x4 solid-white RGB image with bits = 2 hashes to "f".
C4_HashIsF ==
    (Called /\ im = White4x4 /\ bits = 2) => result = Ok(<<"f">>)

C4_Witness == pc = "blockhash" /\ im = White4x4 /\ bits = 2 /\ result.kind = "ok"

\* C5: a band whose values all equal its median comes out all 1 when that
\* median exceeds half_block_value = pixels_per_block * 384, all 0 otherwise.
C5_TieBreak ==
    pc = "translated" =>
        LET n == Len(before) \div 4
        IN \A i \in 0..3 :
             LET m == before[i * n + 1].n
             IN (\A k \in 1..n : before[i * n + k].n = m) =>
                  \A k \in 1..n :
                     blocks[i * n + k] = PyInt(IF m > ppb * 384 THEN 1 ELSE 0)

\* One list with a constant band above the threshold and one at it.
C5_Witness ==
    /\ pc = "translated" /\ ppb = 1 /\ Len(before) = 8
    /\ before[1].n = 385 /\ before[2].n = 385 /\ blocks[1].n = 1 /\ blocks[2].n = 1
    /\ before[3].n = 384 /\ before[4].n = 384 /\ blocks[3].n = 0 /\ blocks[4].n = 0

Brightness(mode, p) == IF mode = "RGBA" /\ p[4] = 0 THEN 765 ELSE p[1] + p[2] + p[3]

\* C6: two uniform images of the same size and mode whose brightness is on
\* the same side of 384 have the same hash (bits valid, same method), for
\* every width and height.
C6_UniformStability ==
    (Called /\ ValidBits(bits) /\ IsUniform(im)) =>
        \A c \in (IF im.mode = "RGB" THEN UniformColours ELSE RGBAUniformColours) :
            ((Brightness(im.mode, c) > 384) = (Brightness(im.mode, im.data[1]) > 384))
              => CalledOn(Uniform(im.mode, im.size[1], im.size[2], c)) = result

WhitePixels == {<<255, 255, 255, 1>>, <<255, 255, 255, 255>>}

\* C7: total_value_rgba is 765 for alpha = 0 and r + g + b otherwise, and
\* replacing a pixel of alpha 0 by opaque white leaves the hash unchanged.
C7_Alpha ==
    (Called /\ im.mode = "RGBA") =>
        \A k \in DOMAIN im.data :
            LET p == im.data[k]
                x == (k - 1) % im.size[1]
                y == (k - 1) \div im.size[1]
            IN /\ total_value_rgba(im, x, y)
                    = (IF p[4] = 0 THEN 765 ELSE p[1] + p[2] + p[3])
               /\ p[4] = 0 =>
                    \A white \in WhitePixels :
                        CalledOn([im EXCEPT !.data[k] = white]) = result

\* A transparent, non-white pixel in a picture hashed to mixed bits.
C7_Witness ==
    /\ pc = "blockhash" /\ im.mode = "RGBA" /\ bits = 4 /\ result.kind = "ok"
    /\ \E k \in DOMAIN im.data : im.data[k] = <<100, 0, 0, 0>>
    /\ \E k \in DOMAIN im.data : im.data[k][4] # 0
    /\ \E k \in 1..Len(result.hash) : result.hash[k] # "0"

\* What hashing image i of the input gives.
HashOf(i) == blockhash_method(quick, Normalize(images[i]), gbits)

RECURSIVE HashesFrom(_)
HashesFrom(i) ==
    IF i > Len(images) THEN <<>>
    ELSE IF HashOf(i).kind = "ok" THEN <<HashOf(i).hash>> \o HashesFrom(i + 1)
    ELSE HashesFrom(i + 1)

\* C8: once the consumer that catches the unsupported-mode error has been
\* told the sequence is over, it has received the hash of every image that
\* has one, those after the failing image included.
C8_LaterImagesHashed ==
    gen \in {"finished", "closed"} => out = HashesFrom(1)

Overlap(p, extent, b, c) ==
    LET lo == IF p * b > c * extent THEN p * b ELSE c * extent
        hi == IF (p + 1) * b < (c + 1) * extent THEN (p + 1) * b ELSE (c + 1) * extent
    IN IF hi > lo THEN hi - lo ELSE 0

RECURSIVE SumSeq(_)
SumSeq(q) == IF q = <<>> THEN 0 ELSE Head(q).n + SumSeq(Tail(q))

RECURSIVE SumPixels(_, _)
SumPixels(image, k) ==
    IF k = image.size[1] * image.size[2] THEN 0
    ELSE total_value(image, k % image.size[1], k \div image.size[1])
         + SumPixels(image, k + 1)

\* C10: in the weighted path every pixel adds to each block its value times
\* the area it shares with the block, every block index is in 0..bits-1
\* and the block sums add up to the sum of all pixels, for every size.
C10_AreaWeighted ==
    (pc = "blockhash" /\ ~Divisible(im, bits)) =>
        LET w == im.size[1]
            h == im.size[2]
            zero == [rc \in (0..(bits - 1)) \X (0..(bits - 1)) |-> PyInt(0)]
        IN /\ \A y \in 0..(h - 1) :
                 {Straddle(y, h, bits, h % bits = 0).first,
                  Straddle(y, h, bits, h % bits = 0).second} \subseteq 0..(bits - 1)
           /\ \A x \in 0..(w - 1) :
                 {Straddle(x, w, bits, w % bits = 0).first,
                  Straddle(x, w, bits, w % bits = 0).second} \subseteq 0..(bits - 1)
           /\ SumSeq(WeightedBlocks(im, bits)) = bits * bits * SumPixels(im, 0)
           /\ \A x \in 0..(w - 1), y \in 0..(h - 1) :
                 \A rc \in DOMAIN zero :
                     AddPixel(zero, im, bits, x, y)[rc].n
                       = total_value(im, x, y) * Overlap(y, h, bits, rc[1])
                                               * Overlap(x, w, bits, rc[2])

====
